---- MODULE Spec2Model ----
(***************************************************************************)
(* Model of src/skyvern/app.py: the in-memory task store `tasks`, the      *)
(* three submission handlers, the three status handlers, process_task and  *)
(* the daemon thread delayed_completion, and the authentication            *)
(* dependencies.                                                           *)
(*                                                                         *)
(* Scheduling.  The handlers are `async def` bodies without an await, so   *)
(* the event loop runs one handler at a time: `handler` holds the position *)
(* of the one handler in progress.  The threads started by process_task    *)
(* run concurrently with the handler and with each other; a thread step    *)
(* may fall between any two statements of a handler.                       *)
(*                                                                         *)
(* Strings are sequences of characters.  Optional[T] is a sequence of      *)
(* length 0 (None) or 1 (the value).                                       *)
(***************************************************************************)
EXTENDS Integers, Sequences, FiniteSets, TLC

VARIABLES
    API_KEY,        \* app.py:37, read once at import
    BEARER_TOKEN,   \* app.py:38, read once at import
    tasks,          \* app.py:61, task_id -> record
    threads,        \* the threads started at app.py:234-236, in start order
    handler,        \* the request handler the event loop is running, up to
                    \* and including the response it is about to send
    returned,       \* the task ids that submissions have returned so far
    nsub,           \* number of records inserted by submissions so far
    now,            \* the value time.time() returns; the clock advances
                    \* once in every accepted submission
    authLog         \* the last evaluation of authenticate on its own

vars == <<API_KEY, BEARER_TOKEN, tasks, threads, handler, returned,
          nsub, now, authLog>>

----------------------------------------------------------------------------
(* Bounds of the model.                                                    *)

\* accepted submissions per behaviour
MaxSubmits == 2
\* number of pieces an Authorization header is built from
MaxHeaderChunks == 3
\* number of pieces a configured bearer token is built from
MaxTokenChunks == 2

----------------------------------------------------------------------------
(* Strings and optional values.                                            *)

None == <<>>
Some(v) == <<v>>
IsNone(o) == Len(o) = 0
Value(o) == o[1]

\* The literal "Bearer " of app.py:78 and app.py:82.
BearerPrefix == <<"B", "e", "a", "r", "e", "r", " ">>

\* str.startswith
startswith(s, p) == Len(s) >= Len(p) /\ SubSeq(s, 1, Len(p)) = p

\* str.replace(old, new): every non-overlapping occurrence of old, scanning
\* from the left, is replaced by new.
RECURSIVE replace(_, _, _)
replace(s, old, new) ==
    IF Len(s) < Len(old) THEN s
    ELSE IF SubSeq(s, 1, Len(old)) = old
         THEN new \o replace(SubSeq(s, Len(old) + 1, Len(s)), old, new)
         ELSE <<Head(s)>> \o replace(Tail(s), old, new)

\* Python truthiness of a str: the empty string is false.
Truthy(s) == Len(s) > 0

RECURSIVE Flatten(_)
Flatten(ss) == IF Len(ss) = 0 THEN <<>> ELSE Head(ss) \o Flatten(Tail(ss))

\* The strings built from at most n pieces of the set `pieces`.
Strings(pieces, n) ==
    { Flatten(cs) : cs \in UNION { [1..k -> pieces] : k \in 0..n } }

----------------------------------------------------------------------------
(* Authentication (app.py:64-98).                                          *)

verify_api_key(x_api_key) ==
    IF ~Truthy(API_KEY) THEN TRUE
    ELSE IF IsNone(x_api_key) \/ Value(x_api_key) # API_KEY THEN FALSE
    ELSE TRUE

verify_bearer_token(authorization) ==
    IF ~Truthy(BEARER_TOKEN) THEN TRUE
    ELSE IF IsNone(authorization)
            \/ ~Truthy(Value(authorization))
            \/ ~startswith(Value(authorization), BearerPrefix)
         THEN FALSE
    ELSE LET token == replace(Value(authorization), BearerPrefix, <<>>)
         IN  IF token # BEARER_TOKEN THEN FALSE ELSE TRUE

\* TRUE: the request goes on to its handler; FALSE: HTTPException(403).
authenticate(x_api_key, authorization) ==
    LET api_key_valid == verify_api_key(x_api_key)
        token_valid == verify_bearer_token(authorization)
    IN  api_key_valid \/ token_valid

----------------------------------------------------------------------------
(* Task identifiers (app.py:112, 149, 181).                                *)

\* The renderings str(uuid.uuid4()) can produce, cut down to two digits.
\* uuid4 is random: any rendering may come out of any call.
UUIDs == { <<"a", "a">>, <<"a", "b">> }

\* The slice [:8] of app.py:149 keeps a proper prefix of the rendering;
\* with two-digit renderings it keeps one digit.
ShortLen == 1

Routes == {"legacy", "v1", "v2"}

\* task_id as each submission handler builds it
new_task_id(route, u) ==
    IF route = "v2" THEN <<"t", "_">> \o SubSeq(u, 1, ShortLen) ELSE u

\* the "api_version" entry of the record; the /tasks handler stores none
api_version(route) == IF route = "legacy" THEN None ELSE Some(route)

TaskIds == { new_task_id(r, u) : r \in Routes, u \in UUIDs }

----------------------------------------------------------------------------
(* The store (app.py:61) and its records.                                  *)

\* task.dict() of the n-th accepted submission.  The submitted bodies are
\* opaque to the engine; each submission of a behaviour carries a goal of
\* its own, so that a record written by one submission is told apart from
\* a record written by another.
task_dict(n) == [navigation_goal |-> n]

\* The dict literal of app.py:115-121, 152-158, 184-189.  The keys "error"
\* and "result" are absent from it; dict.get reads an absent key as None.
NewRecord(payload, t1, t2, ver) ==
    [task |-> payload, status |-> "pending", created_at |-> t1,
     updated_at |-> t2, api_version |-> ver, error |-> None, result |-> None]

\* a store rebuilt around the new record alone, as `tasks = {task_id: record}`
\* would leave it
Put_Rebuilt(store, id, rec) == [k \in {id} |-> rec]

\* tasks[task_id] = record
Put(store, id, rec) ==
    [k \in (DOMAIN store) \cup {id} |-> IF k = id THEN rec ELSE store[k]]

\* tasks[task_id][field] = v
SetField(store, id, field, v) ==
    [store EXCEPT ![id] = [@ EXCEPT ![field] = v]]

\* the dict literal of app.py:228-232
Result(t, created_at) ==
    [steps_taken |-> 5, completion_time |-> t - created_at, screenshots |-> <<>>]

----------------------------------------------------------------------------
(* Handler positions and responses.                                        *)

Idle == [op |-> "idle", pc |-> "idle"]

\* raise HTTPException(status_code=403, ...) of app.py:98, raised by the
\* dependency of a submission ("create", which has no task_id yet) or of a
\* status query ("query", for the task_id of its path)
Forbidden(request, task_id) ==
    [op |-> "raise", pc |-> "raise", code |-> 403, request |-> request,
     task_id |-> task_id]

\* a lookup that answers an unknown id with an empty default record
NotFound_Default(task_id) ==
    [op |-> "query", pc |-> "return", task_id |-> task_id,
     status |-> "pending", error |-> <<>>, result |-> <<>>,
     early |-> FALSE, late |-> FALSE]

\* raise HTTPException(status_code=404, ...) of app.py:132, 169, 200
NotFound(task_id) ==
    [op |-> "raise", pc |-> "raise", code |-> 404, request |-> "query",
     task_id |-> task_id]

ThreadsOf(id) == { i \in DOMAIN threads : threads[i].task_id = id }

\* every thread started for id is still inside time.sleep
AllSleeping(id) == \A i \in ThreadsOf(id) : threads[i].pc = "sleep"

\* every thread started for id has run to its end
AllDone(id) == \A i \in ThreadsOf(id) : threads[i].pc = "done"

----------------------------------------------------------------------------
(* Initial states.                                                         *)

\* the request headers the engine model draws from
ApiKeyHeaders == { None, Some(<<"k">>) }
AuthorizationHeaders == { None, Some(BearerPrefix \o <<"x">>) }

NoAuthLog ==
    [x_api_key |-> None, authorization |-> None, evaluated |-> FALSE,
     accepted |-> FALSE]

EngineInit ==
    /\ tasks = << >>
    /\ threads = << >>
    /\ handler = Idle
    /\ returned = {}
    /\ nsub = 0
    /\ now = 0
    /\ authLog = NoAuthLog

\* The engine runs with authentication disabled (neither variable set) or
\* with both schemes configured, where requests are accepted or rejected
\* according to their headers.
Init ==
    /\ \/ API_KEY = <<>> /\ BEARER_TOKEN = <<>>
       \/ API_KEY = <<"k">> /\ BEARER_TOKEN = <<"x">>
    /\ EngineInit

----------------------------------------------------------------------------
(* Submission: create_task_v1 (app.py:110-127), create_task_v2             *)
(* (app.py:147-164), create_task (app.py:179-195).                         *)

\* a handler that stores the record first and calls authenticate in its
\* body afterwards
Submit_StoreFirst(route, x_api_key, authorization) ==
    /\ handler = Idle
    /\ nsub < MaxSubmits
    /\ \E u \in UUIDs :
         LET task_id == new_task_id(route, u)
         IN  /\ tasks' = Put(tasks, task_id,
                             NewRecord(task_dict(nsub + 1), now, now,
                                       api_version(route)))
             /\ handler' = IF ~authenticate(x_api_key, authorization)
                           THEN Forbidden("create", None)
                           ELSE [op |-> "create", pc |-> "status",
                                 task_id |-> task_id, created_at |-> now]
    /\ now' = now + 1
    /\ nsub' = nsub + 1
    /\ UNCHANGED <<threads, returned>>
    /\ UNCHANGED <<API_KEY, BEARER_TOKEN, authLog>>

\* The handler up to and including the store of the new record.  The
\* dependency `authenticate` runs first; a rejected request never reaches
\* the handler body.
Submit(route, x_api_key, authorization) ==
    /\ handler = Idle
    /\ IF ~authenticate(x_api_key, authorization)
       THEN /\ handler' = Forbidden("create", None)
            /\ UNCHANGED <<tasks, threads, returned, nsub, now>>
       ELSE /\ nsub < MaxSubmits
            /\ \E u \in UUIDs :
                 /\ LET task_id == new_task_id(route, u)
                    IN  /\ tasks' = Put(tasks, task_id,
                                        NewRecord(task_dict(nsub + 1), now, now,
                                                  api_version(route)))
                        /\ handler' = [op |-> "create", pc |-> "status",
                                       task_id |-> task_id,
                                       created_at |-> now]
                 /\ now' = now + 1
            /\ nsub' = nsub + 1
            /\ UNCHANGED <<threads, returned>>
    /\ UNCHANGED <<API_KEY, BEARER_TOKEN, authLog>>

create_task_v1 ==
    \E k \in ApiKeyHeaders, a \in AuthorizationHeaders :
        Submit("v1", k, a)

create_task_v2 ==
    \E k \in ApiKeyHeaders, a \in AuthorizationHeaders :
        Submit("v2", k, a)

create_task ==
    \E k \in ApiKeyHeaders, a \in AuthorizationHeaders :
        Submit("legacy", k, a)

----------------------------------------------------------------------------
(* process_task (app.py:211-236), called inside the submission handler.    *)

\* process_task leaving the status as the handler stored it
ProcessingStatus_Unset == "pending"

\* the status process_task writes at app.py:217
ProcessingStatus == "processing"

\* app.py:213-217: task_info = tasks[task_id]; ...["status"] = "processing"
process_task_status ==
    /\ handler.op = "create" /\ handler.pc = "status"
    /\ tasks' = SetField(tasks, handler.task_id, "status", ProcessingStatus)
    /\ handler' = [handler EXCEPT !.pc = "updated_at"]
    /\ UNCHANGED <<API_KEY, BEARER_TOKEN, threads, returned, nsub, now, authLog>>

\* app.py:218
process_task_updated_at ==
    /\ handler.op = "create" /\ handler.pc = "updated_at"
    /\ tasks' = SetField(tasks, handler.task_id, "updated_at", now)
    /\ handler' = [handler EXCEPT !.pc = "start"]
    /\ UNCHANGED <<API_KEY, BEARER_TOKEN, threads, returned, nsub, now, authLog>>

\* a thread that is built and never started
StartThread_Skipped(ths, task_id, created_at) == ths

\* the threads after thread.start() for task_id; the closure keeps task_id
\* and task_info, of which it reads "created_at" only
StartThread(ths, task_id, created_at) ==
    Append(ths, [task_id |-> task_id, created_at |-> created_at,
                 pc |-> "sleep"])

\* app.py:234-236
process_task_start ==
    /\ handler.op = "create" /\ handler.pc = "start"
    /\ threads' = StartThread(threads, handler.task_id, handler.created_at)
    /\ handler' = [handler EXCEPT !.pc = "return"]
    /\ UNCHANGED <<API_KEY, BEARER_TOKEN, tasks, returned, nsub, now, authLog>>

\* app.py:127, 164, 195: return {"task_id": task_id}; the response carries
\* handler.task_id
create_task_return ==
    /\ handler.op = "create" /\ handler.pc = "return"
    /\ returned' = returned \cup {handler.task_id}
    /\ handler' = Idle
    /\ UNCHANGED <<API_KEY, BEARER_TOKEN, tasks, threads, nsub, now, authLog>>

----------------------------------------------------------------------------
(* delayed_completion (app.py:224-232), one thread per submission.         *)

\* a thread that reports its work as failed
CompletedStatus_Failed == "failed"

\* the status the thread writes at app.py:226
CompletedStatus == "completed"

\* app.py:225-226: time.sleep(10) returns and the status is written
delayed_completion_status(i) ==
    /\ i \in DOMAIN threads /\ threads[i].pc = "sleep"
    /\ tasks' = SetField(tasks, threads[i].task_id, "status", CompletedStatus)
    /\ threads' = [threads EXCEPT ![i].pc = "updated_at"]
    /\ UNCHANGED <<API_KEY, BEARER_TOKEN, handler, returned, nsub, now, authLog>>

\* app.py:227
delayed_completion_updated_at(i) ==
    /\ i \in DOMAIN threads /\ threads[i].pc = "updated_at"
    /\ tasks' = SetField(tasks, threads[i].task_id, "updated_at", now)
    /\ threads' = [threads EXCEPT ![i].pc = "result"]
    /\ UNCHANGED <<API_KEY, BEARER_TOKEN, handler, returned, nsub, now, authLog>>

\* app.py:228-232
delayed_completion_result(i) ==
    /\ i \in DOMAIN threads /\ threads[i].pc = "result"
    /\ tasks' = SetField(tasks, threads[i].task_id, "result",
                         Some(Result(now, threads[i].created_at)))
    /\ threads' = [threads EXCEPT ![i].pc = "done"]
    /\ UNCHANGED <<API_KEY, BEARER_TOKEN, handler, returned, nsub, now, authLog>>

delayed_completion(i) ==
    \/ delayed_completion_status(i)
    \/ delayed_completion_updated_at(i)
    \/ delayed_completion_result(i)

----------------------------------------------------------------------------
(* Status queries: get_task_status_v1 (app.py:129-140),                    *)
(* get_task_status_v2 (app.py:166-177), get_task_status (app.py:197-208).  *)

\* `task_id not in tasks`
Missing(store, task_id) == task_id \notin DOMAIN store

\* a store per namespace: the records a route has inserted itself
StoreOf_PerNamespace(route) ==
    [id \in { k \in DOMAIN tasks : tasks[k].api_version = api_version(route) }
        |-> tasks[id]]

\* The dict the handlers of a route work on.  The six handlers all name the
\* one module-level `tasks` (app.py:61).
StoreOf(route) == tasks

\* What the status handler of a route answers for task_id when it runs
\* without a thread step in between: 404, or the status, error and result
\* of the record.
task_status(route, task_id) ==
    IF Missing(StoreOf(route), task_id) THEN NotFound(task_id)
    ELSE [status |-> StoreOf(route)[task_id].status,
          error |-> StoreOf(route)[task_id].error,
          result |-> StoreOf(route)[task_id].result]

\* a status handler that looks the record up with
\* tasks.setdefault(task_id, {...}) and so stores a pending record for an
\* id it does not find
Query_SetDefault(route, task_id, x_api_key, authorization) ==
    /\ handler = Idle
    /\ IF ~authenticate(x_api_key, authorization)
       THEN /\ handler' = Forbidden("query", task_id)
            /\ tasks' = tasks
       ELSE /\ tasks' = IF Missing(StoreOf(route), task_id)
                        THEN Put(tasks, task_id,
                                 NewRecord(task_dict(0), now, now,
                                           api_version(route)))
                        ELSE tasks
            /\ handler' = [op |-> "query", pc |-> "error",
                           task_id |-> task_id,
                           status |-> tasks'[task_id].status,
                           error |-> None, result |-> None,
                           early |-> FALSE, late |-> FALSE]
    /\ UNCHANGED <<API_KEY, BEARER_TOKEN, threads, returned, nsub, now,
                   authLog>>

\* The dependency `authenticate`, the membership test,
\* task_info = tasks[task_id] and the read of task_info["status"], the first
\* entry of the returned dict literal.  `early` and `late` record where the
\* threads of this id stand at the moment of the read.
Query(route, task_id, x_api_key, authorization) ==
    /\ handler = Idle
    /\ handler' =
         IF ~authenticate(x_api_key, authorization)
         THEN Forbidden("query", task_id)
         ELSE IF Missing(StoreOf(route), task_id) THEN NotFound(task_id)
         ELSE [op |-> "query", pc |-> "error", task_id |-> task_id,
               status |-> StoreOf(route)[task_id].status, error |-> None,
               result |-> None,
               early |-> task_id \in returned /\ AllSleeping(task_id),
               late |-> task_id \in returned /\ AllDone(task_id)]
    /\ UNCHANGED <<API_KEY, BEARER_TOKEN, tasks, threads, returned, nsub, now,
                   authLog>>

get_task_status_v1 ==
    \E id \in TaskIds, k \in ApiKeyHeaders, a \in AuthorizationHeaders :
        Query("v1", id, k, a)

get_task_status_v2 ==
    \E id \in TaskIds, k \in ApiKeyHeaders, a \in AuthorizationHeaders :
        Query("v2", id, k, a)

get_task_status ==
    \E id \in TaskIds, k \in ApiKeyHeaders, a \in AuthorizationHeaders :
        Query("legacy", id, k, a)

\* task_info.get("error")
get_task_status_read_error ==
    /\ handler.op = "query" /\ handler.pc = "error"
    /\ handler' = [handler EXCEPT
                     !.error = tasks[handler.task_id].error,
                     !.pc = "result"]
    /\ UNCHANGED <<API_KEY, BEARER_TOKEN, tasks, threads, returned, nsub, now,
                   authLog>>

\* task_info.get("result"); the dict literal of the return statement is
\* now complete
get_task_status_read_result ==
    /\ handler.op = "query" /\ handler.pc = "result"
    /\ handler' = [handler EXCEPT
                     !.result = tasks[handler.task_id].result,
                     !.pc = "return"]
    /\ UNCHANGED <<API_KEY, BEARER_TOKEN, tasks, threads, returned, nsub, now,
                   authLog>>

\* the response {"status", "error", "result"} held by the handler is sent
get_task_status_return ==
    /\ handler.op = "query" /\ handler.pc = "return"
    /\ handler' = Idle
    /\ UNCHANGED <<API_KEY, BEARER_TOKEN, tasks, threads, returned, nsub, now,
                   authLog>>

\* the 403 or 404 response held by the handler is sent
http_exception ==
    /\ handler.op = "raise"
    /\ handler' = Idle
    /\ UNCHANGED <<API_KEY, BEARER_TOKEN, tasks, threads, returned, nsub, now,
                   authLog>>

----------------------------------------------------------------------------
(* The engine.                                                             *)

HandlerStep ==
    \/ process_task_status
    \/ process_task_updated_at
    \/ process_task_start
    \/ create_task_return
    \/ get_task_status_read_error
    \/ get_task_status_read_result
    \/ get_task_status_return
    \/ http_exception

Next ==
    \/ create_task_v1
    \/ create_task_v2
    \/ create_task
    \/ get_task_status_v1
    \/ get_task_status_v2
    \/ get_task_status
    \/ HandlerStep
    \/ \E i \in 1..MaxSubmits : delayed_completion(i)

Spec == Init /\ [][Next]_vars

\* The event loop keeps running the handler it has started, and the
\* operating system keeps scheduling every started thread.
FairSpec ==
    /\ Spec
    /\ WF_vars(HandlerStep)
    /\ \A i \in 1..MaxSubmits : WF_vars(delayed_completion(i))

----------------------------------------------------------------------------
(* A failure of the background work.  delayed_completion has no            *)
(* try/except: an exception raised by any of its statements ends the       *)
(* thread there, and none of the statements after it runs.                 *)

delayed_completion_raises(i) ==
    /\ i \in DOMAIN threads
    /\ threads[i].pc \in {"sleep", "updated_at", "result"}
    /\ threads' = [threads EXCEPT ![i].pc = "raised"]
    /\ UNCHANGED <<API_KEY, BEARER_TOKEN, tasks, handler, returned, nsub, now,
                   authLog>>

NextFault ==
    \/ Next
    \/ \E i \in 1..MaxSubmits : delayed_completion_raises(i)

FaultSpec == Init /\ [][NextFault]_vars

----------------------------------------------------------------------------
(* authenticate on its own, over every configuration and request built     *)
(* from a few pieces.                                                      *)

ApiKeyValues == { <<>>, <<"k">>, <<"j">> }
TokenPieces == { BearerPrefix, <<"x">> }

\* A header value reaches the application without trailing whitespace, so
\* the header values, and the tokens worth configuring, do not end in a
\* space.
Stripped(strs) == { t \in strs : Len(t) = 0 \/ t[Len(t)] # " " }

InitAuth ==
    /\ API_KEY \in ApiKeyValues
    /\ BEARER_TOKEN \in Stripped(Strings(TokenPieces, MaxTokenChunks))
    /\ EngineInit

\* one request passes through the dependency `authenticate` (app.py:89-98)
AuthRequest(x_api_key, authorization) ==
    /\ authLog' = [x_api_key |-> x_api_key, authorization |-> authorization,
                   evaluated |-> TRUE,
                   accepted |-> authenticate(x_api_key, authorization)]
    /\ UNCHANGED <<API_KEY, BEARER_TOKEN, tasks, threads, handler, returned,
                   nsub, now>>

NextAuth ==
    \E k \in {None} \cup { Some(v) : v \in ApiKeyValues },
       a \in {None} \cup { Some(v) : v \in Stripped(Strings(TokenPieces,
                                                          MaxHeaderChunks)) } :
        AuthRequest(k, a)

AuthSpec == InitAuth /\ [][NextAuth]_vars

----------------------------------------------------------------------------
(* Properties of the task lifecycle.                                       *)

Terminal == {"completed", "failed"}

\* the edges of pending -> processing -> {completed | failed}
Edges ==
    { <<"pending", "processing">>, <<"processing", "completed">>,
      <<"processing", "failed">> }

InStore(id) == id \in DOMAIN tasks

\* the handler holds a complete status response
StatusResponse == handler.op = "query" /\ handler.pc = "return"

\* C1: in every step, each record of the store stays in the store and its
\* status either stays as it is or moves along one edge of
\* pending -> processing -> {completed | failed}; in particular it never
\* leaves completed or failed.
C1_StatusMovesForward ==
    [][\A id \in DOMAIN tasks :
          /\ id \in DOMAIN tasks'
          /\ \/ tasks'[id].status = tasks[id].status
             \/ <<tasks[id].status, tasks'[id].status>> \in Edges]_vars

\* C2: every status response whose status is completed carries a result
\* and no error.
C2_CompletedHasResult ==
    (StatusResponse /\ handler.status = "completed")
        => (~IsNone(handler.result) /\ IsNone(handler.error))

\* C3: a status query for an id that a submission has returned is never
\* answered 404: the record is in the store before the submission returns
\* (while the handler is still running) and every returned id is still in
\* the store.
C3_ReturnedIdIsFound ==
    /\ (handler.op = "create") => InStore(handler.task_id)
    /\ returned \subseteq DOMAIN tasks
    /\ (handler.op = "raise" /\ handler.code = 404)
           => handler.task_id \notin returned

\* C3 witness: with two ids returned, a query for one of them was answered
\* with its status.
C3_Witness ==
    /\ StatusResponse
    /\ handler.task_id \in returned
    /\ Cardinality(returned) = 2

C5_IdsAreUnique ==
    (handler.op # "create")
        => (Cardinality(returned) = nsub /\ Cardinality(DOMAIN tasks) = nsub)

\* C6: a submission that generates an id already in the store leaves the
\* record stored under that id as it was.
C6_DuplicateLeavesRecord ==
    [][\A id \in DOMAIN tasks :
          (handler.op = "idle" /\ handler'.op = "create"
           /\ handler'.task_id = id)
              => tasks'[id] = tasks[id]]_vars

\* C7: under fair scheduling of the handler in progress and of every
\* started thread, there is a point from which on every record of the
\* store is in a terminal status: no record stays pending or processing
\* for ever.
C7_EventuallyTerminal ==
    <>[](\A id \in TaskIds : InStore(id) => tasks[id].status \in Terminal)

\* C7 witness: two tasks were submitted, their threads ran concurrently
\* to the end and both records are completed.
C7_Witness ==
    /\ Len(threads) = 2
    /\ threads[1].task_id # threads[2].task_id
    /\ \A i \in DOMAIN threads :
          /\ threads[i].pc = "done"
          /\ tasks[threads[i].task_id].status = "completed"

\* C8: when the work of a thread has raised, the record of its task is
\* failed and carries an error.
C8_RaisedWorkIsFailed ==
    \A i \in DOMAIN threads :
        threads[i].pc = "raised"
            => /\ tasks[threads[i].task_id].status = "failed"
               /\ ~IsNone(tasks[threads[i].task_id].error)

----------------------------------------------------------------------------
(* Properties of authenticate.                                             *)

\* some scheme is configured
Configured == Truthy(API_KEY) \/ Truthy(BEARER_TOKEN)

\* the x-api-key header equals the configured API_KEY
KeyMatches ==
    /\ Truthy(API_KEY)
    /\ ~IsNone(authLog.x_api_key)
    /\ Value(authLog.x_api_key) = API_KEY

\* the authorization header is "Bearer " followed by the configured token
BearerMatches ==
    /\ Truthy(BEARER_TOKEN)
    /\ ~IsNone(authLog.authorization)
    /\ Value(authLog.authorization) = BearerPrefix \o BEARER_TOKEN

\* C9: with at least one scheme configured, a request that matches no
\* configured scheme is rejected.
C9_NoMatchIsRejected ==
    (authLog.evaluated /\ Configured /\ ~KeyMatches /\ ~BearerMatches)
        => ~authLog.accepted

\* C10: a request is accepted when no scheme is configured, and when it
\* matches a configured scheme.
C10_MatchIsAccepted ==
    (authLog.evaluated /\ (~Configured \/ KeyMatches \/ BearerMatches))
        => authLog.accepted

----------------------------------------------------------------------------
(* Properties of the request handlers.                                     *)

\* the handler holds a 403 response
Rejected(h) == h.op = "raise" /\ h.code = 403

\* C11: a request that authentication rejects with 403 performs no engine
\* operation: the step that rejects a submission or a query, and the step
\* that sends the 403, leave the store, the threads, the returned ids and
\* the count of inserted records as they were.
C11_RejectedDoesNothing ==
    [][(handler' # handler /\ (Rejected(handler) \/ Rejected(handler')))
          => UNCHANGED <<tasks, threads, returned, nsub>>]_vars

\* C11 witness: with a record in the store and its thread started, a
\* submission has been rejected with 403.
C11_Witness ==
    /\ Rejected(handler) /\ handler.request = "create"
    /\ DOMAIN tasks # {}
    /\ Len(threads) > 0

\* the handler holds the answer to a status query: a status response, or
\* the 403 or 404 raised for the query
QueryAnswer ==
    \/ handler.op = "query"
    \/ handler.op = "raise" /\ handler.request = "query"

\* the answer is 404 and the store holds no record for the queried id
AnswerIsNotFound ==
    /\ handler.op = "raise" /\ handler.code = 404
    /\ handler.task_id \notin DOMAIN tasks

\* C12: a status query for an id that no submission has returned, on any
\* of the three routes, is answered 404 whatever other records the store
\* holds, and the store holds no record for that id afterwards.  The
\* dependency authenticate runs before the query: a request it rejects is
\* answered 403 and never reaches the lookup, and leaves no record either.
C12_AcceptedUnknownIdIs404 ==
    (QueryAnswer /\ handler.task_id \notin returned)
        => IF Rejected(handler)
           THEN handler.task_id \notin DOMAIN tasks
           ELSE AnswerIsNotFound

\* C12 witness: with two other records in the store, a query for an id
\* that was never returned was answered 404.
C12_Witness ==
    /\ AnswerIsNotFound
    /\ handler.task_id \notin returned
    /\ Cardinality(DOMAIN tasks) = 2

\* C13: the three namespaces work on one store.  Every returned id is found
\* through every route, whichever route submitted it; at every instant the
\* three routes answer the same status, error and result (or the same 404)
\* for the same id; and the route of the submission shows in the record
\* only as the id format ("t_" for /api/v2) and the api_version tag.
C13_OneStore ==
    /\ \A id \in returned, r \in Routes : ~Missing(StoreOf(r), id)
    /\ \A id \in TaskIds, r1 \in Routes, r2 \in Routes :
          task_status(r1, id) = task_status(r2, id)
    /\ \A id \in DOMAIN tasks :
          /\ tasks[id].api_version \in { api_version(r) : r \in Routes }
          /\ tasks[id].api_version = api_version("v2")
                <=> startswith(id, <<"t", "_">>)

\* C13 witness: tasks submitted through two different namespaces have been
\* returned, and a status query for one of them holds its completed
\* response.
C13_Witness ==
    /\ Cardinality({ tasks[id].api_version : id \in returned }) = 2
    /\ StatusResponse
    /\ handler.status = "completed"
    /\ ~IsNone(handler.result)

\* C14: a submission does not wait for the work.  The step that returns
\* the response with task_id finds the record of that id in a non-terminal
\* status, and a step that takes a record to a terminal status is never a
\* step of the request handler.
C14_ReturnsBeforeTerminal ==
    [][/\ (handler.op = "create" /\ handler.pc = "return" /\ handler' = Idle)
            => tasks[handler.task_id].status \notin Terminal
       /\ \A id \in DOMAIN tasks :
            (/\ id \in DOMAIN tasks'
             /\ tasks[id].status \notin Terminal
             /\ tasks'[id].status \in Terminal) => handler' = handler]_vars

\* the threads of id that have written the terminal status
Completions(id) ==
    { i \in ThreadsOf(id) : threads[i].pc \in {"updated_at", "result", "done"} }

\* C15: for every id, at most one thread is ever started and the terminal
\* status is written at most once.
C15_ExecutesOnce ==
    \A id \in TaskIds :
        /\ Cardinality(ThreadsOf(id)) <= 1
        /\ Cardinality(Completions(id)) <= 1

\* C16: in every state, intermediate ones included, every record of the
\* store has a result only if it is completed, an error only if it is
\* failed, and never both.
C16_ResultOnlyWhenCompleted ==
    \A id \in DOMAIN tasks :
        /\ ~IsNone(tasks[id].result) => tasks[id].status = "completed"
        /\ ~IsNone(tasks[id].error) => tasks[id].status = "failed"
        /\ IsNone(tasks[id].result) \/ IsNone(tasks[id].error)

\* C17: in every step, every record of the store stays in the store with
\* its task, created_at and api_version as they were, and at most one
\* record of the store is modified.
C17_RecordIdentityIsKept ==
    [][/\ \A id \in DOMAIN tasks :
            /\ id \in DOMAIN tasks'
            /\ tasks'[id].task = tasks[id].task
            /\ tasks'[id].created_at = tasks[id].created_at
            /\ tasks'[id].api_version = tasks[id].api_version
       /\ Cardinality({ id \in DOMAIN tasks \cap DOMAIN tasks' :
                           tasks'[id] # tasks[id] }) <= 1]_vars

\* C18: no record is ever failed or carries an error: every stored status
\* is pending, processing or completed, and every status response has
\* error null and a status other than failed.
C18_NeverFailed ==
    /\ \A id \in DOMAIN tasks :
          /\ tasks[id].status \in {"pending", "processing", "completed"}
          /\ IsNone(tasks[id].error)
    /\ handler.op = "query"
          => (IsNone(handler.error) /\ handler.status # "failed")

\* C18 witness: a task has reached its terminal status, completed, and a
\* status query read after its thread finished answers completed with
\* error null.
C18_Witness ==
    /\ StatusResponse /\ handler.late
    /\ handler.status = "completed"
    /\ IsNone(handler.error)
    /\ tasks[handler.task_id].status = "completed"

\* h holds the answer to a status query, or the handler of one is reading
QueryHandler(h) ==
    \/ h.op = "query"
    \/ h.op = "raise" /\ h.request = "query"

\* C19: a status query is read-only.  Every step of a status handler, for
\* a known or an unknown id, accepted or rejected, leaves the store, the
\* threads, the returned ids and the count of inserted records as they
\* were: the store changes only in steps of submissions and of threads.
C19_QueryIsReadOnly ==
    [][(handler' # handler /\ (QueryHandler(handler) \/ QueryHandler(handler')))
          => UNCHANGED <<tasks, threads, returned, nsub>>]_vars

\* C19 witness: a status query has read a record whose thread is running,
\* and holds a status the thread has since overwritten: the store moved on
\* by the thread, not by the query.
C19_Witness ==
    /\ StatusResponse
    /\ handler.status = "processing"
    /\ tasks[handler.task_id].status = "completed"
    /\ Len(threads) = 1

====
